---- MODULE Spec2Model ----
(***************************************************************************)
(* A model of the pointercrate database actor (src/actor/database.rs): a   *)
(* SyncArbiter of NumWorkers threads, each handling one message at a time  *)
(* on a connection leased from an r2d2 pool over one PostgreSQL database.  *)
(*                                                                         *)
(* A handler is cut into steps at the points where it touches state other  *)
(* workers can see: the pool, and the committed rows of the database.      *)
(* Transactions run at PostgreSQL's default isolation, READ COMMITTED:     *)
(* every statement reads the rows committed when it runs, a written row    *)
(* stays locked until the transaction ends, and a writer waits for the     *)
(* lock and then acts on the row as it is by then.                         *)
(***************************************************************************)
EXTENDS Integers, Sequences, FiniteSets, TLC

(* ------------------------------ bounds -------------------------------- *)

\* Connections in the pool (r2d2's default is 10; fewer than the workers
\* here, so that the pool runs dry).
PoolSize == 2
\* Identities stored in the members table.
MaxUser == 2
\* Passwords a caller may supply.
MaxPassword == 2
\* CSRF values a token may embed and a caller may supply.
MaxCsrf == 2
\* Keys of the resource table, and values a resource may hold.
MaxKey == 1
MaxVal == 1
\* Ids a row of the resource table may have, and the largest page size.
MaxRow == 4
MaxLimit == 2
\* Messages sent to the actor in one behaviour, per specification.
MaxBasicRequests == 2
MaxTokenRequests == 2
MaxTxRequests == 2
MaxAuditRequests == 2
MaxDispatchRequests == 5
MaxListRequests == 1
MaxReadRequests == 2
MaxLiveRequests == 2
MaxConnRequests == 3
MaxPageRequests == 2
MaxAuthRequests == 3
\* The longest string compared.
MaxLen == 2
MaxRequests == 2

(* ------------------------- program constants -------------------------- *)

\* SyncArbiter::start(4, ...)
NumWorkers == 4

Workers == 1..NumWorkers
Conns == 1..PoolSize
Ids == 1..MaxUser
Passwords == 1..MaxPassword
Csrfs == 1..MaxCsrf
Keys == 1..MaxKey
Rows == 1..(IF MaxKey > MaxRow THEN MaxKey ELSE MaxRow)
Limits == 1..MaxLimit
Vals == 0..MaxVal

\* A row that is not there.
Absent == -1
\* An id and a username no identity has.
NoId == 0

(* ------------------------------ values -------------------------------- *)

\* PointercrateError, and Ok.
Ok == "Ok"
Unauthorized == "Unauthorized"
DatabaseConnectionError == "DatabaseConnectionError"
NotFound == "NotFound"
PreconditionFailed == "PreconditionFailed"
ValidationError == "ValidationError"
DatabaseError == "DatabaseError"

\* The password hash stored for an identity: the salt it was made with and
\* the digest of the password under that salt.
PasswordHash(salt, password) == <<salt, password>>

\* The password each stored identity starts with.
InitPassword(i) == 1 + (i % MaxPassword)

\* A row of the members table as User::get loads it.
NoUser == [id |-> NoId, salt |-> 0, hash |-> <<0, 0>>]

\* The usernames of the stored identities (User::get by name).
UserName(i) == 100 + i
UnknownName == 100
Names == {UserName(i) : i \in Ids} \cup {UnknownName}

\* Claims and its token. key is the signing key the token's signature was
\* made with (the salt of the signer when it was signed, 0 for no valid
\* signature); wf says whether the payload decodes at all.
Token(wf, id, key, csrf, exp) ==
    [wf |-> wf, id |-> id, key |-> key, csrf |-> csrf, exp |-> exp]
NoToken == Token(FALSE, NoId, 0, 0, FALSE)

\* Authorization: Basic { username, password } | Token { access_token, csrf_token }
\* (csrf 0 is None).
BasicCred(username, password) ==
    [type |-> "Basic", username |-> username, password |-> password,
     token |-> NoToken, csrf |-> 0]
TokenCred(token, csrf) ==
    [type |-> "Token", username |-> UnknownName, password |-> 0,
     token |-> token, csrf |-> csrf]
NoCred == [type |-> "None", username |-> UnknownName, password |-> 0,
           token |-> NoToken, csrf |-> 0]

\* RequestData: Internal | External { user: Option<Me>, if_match, .. }
\* (user 0 is None; ifMatch is the precondition token, an ETag).
Internal == [ext |-> FALSE, user |-> NoId, ifMatch |-> 0]
External(user, ifMatch) == [ext |-> TRUE, user |-> user, ifMatch |-> ifMatch]

\* An anchor that is None.
NoAnchor == -1

\* A Paginator (the pagination descriptor D): the values of the pagination
\* column the page lies strictly after and strictly before, and the page
\* size.
Paginator(after, before, limit) ==
    [after |-> after, before |-> before, limit |-> limit]
\* Option<D>::None, the page there is none of.
NoPage == Paginator(NoAnchor, NoAnchor, 0)

\* A message to the actor. PaginateMessage(D, String, RequestData) carries
\* its paginator and the base the navigation links are built on.
Msg(kind, cred, data, key, arg) ==
    [kind |-> kind, cred |-> cred, data |-> data, key |-> key, arg |-> arg,
     pag |-> NoPage, base |-> ""]
PaginateMessage(pag, base, data) ==
    [Msg("Paginate", NoCred, data, 0, 0) EXCEPT !.pag = pag, !.base = base]
NoMsg == Msg("None", NoCred, Internal, 0, 0)

\* The write a transaction has made and not yet committed.
NoWrite == [table |-> "none", key |-> 0, val |-> 0]

\* The locals of Handler<PaginateMessage>::handle: result, the four anchors
\* as rendered (first, last, next, prev; "" is None) and header; saw lists the
\* rows each of its queries found committed.
NoNav == [first |-> "", last |-> "", next |-> "", prev |-> ""]

IdleWorker ==
    [pc |-> "idle", req |-> NoMsg, conn |-> 0, usr |-> NoUser, obj |-> Absent,
     pend |-> NoWrite, wrote |-> FALSE, by |-> {}, res |-> "None",
     result |-> <<>>, nav |-> NoNav, header |-> "", saw |-> <<>>]

(* ------------------------------- state -------------------------------- *)

VARIABLES
    queue,      \* the arbiter's mailbox: messages sent and not yet taken
    worker,     \* per worker thread: where it is in its handler, and its locals
    idle,       \* the pool: the connections not leased
    marker,     \* per connection, the rows of its session's active_user table
    users,      \* members: id -> [salt, hash]
    objects,    \* the resource table: key -> value, or Absent
    nextSalt,   \* the next salt the random generator yields
    submitted,  \* messages sent so far
    replied,    \* results returned so far
    ci          \* the strings under comparison, and what the comparisons gave

vars == <<queue, worker, idle, marker, users, objects, nextSalt, submitted, replied, ci>>


(* ------------------------ the members table --------------------------- *)

\* User::get by id and by name: the row, or NoUser when there is none.
UserGetById(id) ==
    IF id \in Ids
    THEN [id |-> id, salt |-> users[id].salt, hash |-> users[id].hash]
    ELSE NoUser

UserGetByName(name) ==
    IF \E i \in Ids : UserName(i) = name
    THEN UserGetById(CHOOSE i \in Ids : UserName(i) = name)
    ELSE NoUser

\* User::verify_password: the supplied password hashed with the stored salt
\* is the stored hash.
verify_password(user, password) == PasswordHash(user.salt, password) = user.hash

\* User::validate_token: signature and expiry under the key derived from the
\* user's current salt.
validate_token(user, token) == token.key = user.salt /\ ~token.exp

\* User::validate_csrf_token: the supplied value is the one the verified
\* token's claims carry.
validate_csrf_token(token, csrf) == token.csrf = csrf

\* jsonwebtoken::dangerous_unsafe_decode: the payload, signature unchecked.
dangerous_unsafe_decode(token) == token.wf

(* --------------------------- authentication --------------------------- *)

\* Handler<Auth<T>>::handle up to its lease: "" when the handler goes on to
\* self.connection(), else the error it returns at once.
AuthPrecheck(T, cred) ==
    IF T = "Basic"
    THEN IF cred.type = "Basic" THEN "" ELSE Unauthorized
    ELSE IF cred.type # "Token" THEN Unauthorized
         ELSE IF ~dangerous_unsafe_decode(cred.token) THEN Unauthorized
         ELSE ""

\* AuthBasicResult with the error of User::get passed on as it is (the
\* map_err left out).
AuthBasicResultNoMapErr(cred) ==
    LET user == UserGetByName(cred.username) IN
    IF user = NoUser THEN [res |-> NotFound, usr |-> NoUser]
    ELSE IF ~verify_password(user, cred.password)
         THEN [res |-> Unauthorized, usr |-> NoUser]
         ELSE [res |-> Ok, usr |-> user]

\* AuthType::Basic, after the lease: User::get by name, then verify_password.
AuthBasicResult(cred) ==
    LET user == UserGetByName(cred.username) IN
    IF user = NoUser THEN [res |-> Unauthorized, usr |-> NoUser]
    ELSE IF ~verify_password(user, cred.password)
         THEN [res |-> Unauthorized, usr |-> NoUser]
         ELSE [res |-> Ok, usr |-> user]

\* AuthTokenResult with the token verified under the key of whichever
\* identity signed it, and the identity of the claimed id returned.
AuthTokenResultAnyKey(cred) ==
    LET user == UserGetById(cred.token.id) IN
    IF user = NoUser THEN [res |-> Unauthorized, usr |-> NoUser]
    ELSE IF ~\E i \in Ids : validate_token(UserGetById(i), cred.token)
         THEN [res |-> Unauthorized, usr |-> NoUser]
         ELSE IF cred.csrf # 0 /\ ~validate_csrf_token(cred.token, cred.csrf)
              THEN [res |-> Unauthorized, usr |-> NoUser]
              ELSE [res |-> Ok, usr |-> user]

\* AuthTokenResult with the CSRF value demanded of every request.
AuthTokenResultCsrfMandatory(cred) ==
    LET user == UserGetById(cred.token.id) IN
    IF user = NoUser THEN [res |-> Unauthorized, usr |-> NoUser]
    ELSE IF ~validate_token(user, cred.token)
         THEN [res |-> Unauthorized, usr |-> NoUser]
         ELSE IF ~validate_csrf_token(cred.token, cred.csrf)
              THEN [res |-> Unauthorized, usr |-> NoUser]
              ELSE [res |-> Ok, usr |-> user]

\* AuthType::Token, after the lease: User::get by the claimed id,
\* validate_token, then validate_csrf_token if a CSRF value came along.
AuthTokenResult(cred) ==
    LET user == UserGetById(cred.token.id) IN
    IF user = NoUser THEN [res |-> Unauthorized, usr |-> NoUser]
    ELSE IF ~validate_token(user, cred.token)
         THEN [res |-> Unauthorized, usr |-> NoUser]
         ELSE IF cred.csrf # 0 /\ ~validate_csrf_token(cred.token, cred.csrf)
              THEN [res |-> Unauthorized, usr |-> NoUser]
              ELSE [res |-> Ok, usr |-> user]

\* T::auth_type() of the message: Invalidate calls the Auth<Basic> handler.
AuthTypeOf(kind) == IF kind = "AuthToken" THEN "Token" ELSE "Basic"

AuthResult(kind, cred) ==
    IF AuthTypeOf(kind) = "Basic" THEN AuthBasicResult(cred) ELSE AuthTokenResult(cred)

(* ------------------------ CiString and CiStr -------------------------- *)

\* The characters of the strings compared, as code points: A, B, a, and the
\* sigmas: capital, final and small. The order of two Strings is the order of
\* their UTF-8 bytes, which is the order of their code points.
Sigma == 931
FinalSigma == 962
SmallSigma == 963
Chars == {65, 66, 97, Sigma, FinalSigma, SmallSigma}
Strs == UNION {[1..n -> Chars] : n \in 0..MaxLen}

\* char::to_lowercase, of the characters other than the capital sigma.
Lower(ch) == IF ch \in 65..90 THEN ch + 32 ELSE ch

\* str::to_lowercase: character by character, but a capital sigma becomes
\* the final sigma where it ends a word (a cased letter before it, none
\* after it) and the small sigma elsewhere.
to_lowercase(s) ==
    [i \in 1..Len(s) |->
        IF s[i] = Sigma
        THEN IF i > 1 /\ i = Len(s) THEN FinalSigma ELSE SmallSigma
        ELSE Lower(s[i])]

\* Ord for str and String: lexicographic.
RECURSIVE str_cmp(_, _)
str_cmp(s, t) ==
    IF s = <<>> THEN IF t = <<>> THEN "Equal" ELSE "Less"
    ELSE IF t = <<>> THEN "Greater"
    ELSE IF Head(s) < Head(t) THEN "Less"
    ELSE IF Head(s) > Head(t) THEN "Greater"
    ELSE str_cmp(Tail(s), Tail(t))

\* PartialEq for str and String.
str_eq(s, t) == s = t

\* Option<Ordering>: Some(o).
Some(o) == <<o>>

\* pub struct CiString(pub String) and pub struct CiStr(str): a tuple of the
\* one field, field 0 at index 1.
CiString(s) == <<s>>
from_str(s) == <<s>>

\* AsRef<CiStr> for CiString
as_ref(a) == from_str(a[1])

\* Borrow<str> for CiString
borrow(a) == a[1]

\* PartialEq<CiString> for CiString
CiString_eq(a, b) == str_eq(to_lowercase(a[1]), to_lowercase(b[1]))

\* PartialOrd<CiString> for CiString
CiString_partial_cmp(a, b) == Some(str_cmp(to_lowercase(a[1]), to_lowercase(b[1])))

\* PartialEq<CiString> for CiStr
CiStr_eq_CiString(r, b) == str_eq(to_lowercase(b[1]), to_lowercase(r[1]))

\* CiString_cmp with the strings compared as they are.
CiString_cmp_raw(a, b) == str_cmp(a[1], b[1])

\* Ord for CiString
CiString_cmp(a, b) == str_cmp(to_lowercase(a[1]), to_lowercase(b[1]))

\* PartialEq, PartialOrd and Ord for CiStr
CiStr_eq(r, t) == str_eq(to_lowercase(r[1]), to_lowercase(t[1]))
CiStr_partial_cmp(r, t) == Some(str_cmp(to_lowercase(r[1]), to_lowercase(t[1])))
CiStr_cmp(r, t) == str_cmp(to_lowercase(r[1]), to_lowercase(t[1]))

\* Hasher::write of a hasher the collection chooses, here a multiplicative
\* one of 16 bits.
RECURSIVE write(_, _)
write(state, bytes) ==
    IF bytes = <<>> THEN state
    ELSE write((state * 31 + Head(bytes)) % 65536, Tail(bytes))

\* Hash for str: state.write(self.as_bytes()); state.write_u8(0xff).
str_hash(s) == write(write(0, s), <<255>>)

\* #[derive(Hash)] of CiString and of CiStr: the hash of field 0.
CiString_hash(a) == str_hash(a[1])
CiStr_hash(r) == str_hash(r[1])

\* Nothing compared, hashed or borrowed yet.
NoCompared == [eq_ab |-> FALSE, eq_ba |-> FALSE, eq_bc |-> FALSE, eq_ac |-> FALSE,
               eq_aa |-> FALSE, cmp_ab |-> "", partial_cmp_ab |-> <<>>,
               ref_eq_ab |-> FALSE, ref_cmp_ab |-> "", ref_partial_cmp_ab |-> <<>>,
               ref_eq_string_ab |-> FALSE]
NoHashed == [a |-> 0, b |-> 0, ref_a |-> 0, ref_b |-> 0]
NoBorrowed == [eq_ab |-> FALSE, cmp_ab |-> "", hash_a |-> 0, hash_b |-> 0]

\* Three CiStrings before anything is done with them.
Fresh(a, b, c) ==
    [pc |-> "new", a |-> a, b |-> b, c |-> c,
     compared |-> NoCompared, hashed |-> NoHashed, borrowed |-> NoBorrowed]
NoCi == Fresh(CiString(<<>>), CiString(<<>>), CiString(<<>>))

\* The three are compared with one another, as CiStrings and as the CiStrs
\* they give.
Compare ==
    /\ ci.pc = "new"
    /\ ci' = [ci EXCEPT !.pc = "compared", !.compared =
            [eq_ab |-> CiString_eq(ci.a, ci.b), eq_ba |-> CiString_eq(ci.b, ci.a),
             eq_bc |-> CiString_eq(ci.b, ci.c), eq_ac |-> CiString_eq(ci.a, ci.c),
             eq_aa |-> CiString_eq(ci.a, ci.a),
             cmp_ab |-> CiString_cmp(ci.a, ci.b),
             partial_cmp_ab |-> CiString_partial_cmp(ci.a, ci.b),
             ref_eq_ab |-> CiStr_eq(as_ref(ci.a), as_ref(ci.b)),
             ref_cmp_ab |-> CiStr_cmp(as_ref(ci.a), as_ref(ci.b)),
             ref_partial_cmp_ab |-> CiStr_partial_cmp(as_ref(ci.a), as_ref(ci.b)),
             ref_eq_string_ab |-> CiStr_eq_CiString(as_ref(ci.a), ci.b)]]
    /\ UNCHANGED <<queue, worker, idle, marker, users, objects, nextSalt, submitted, replied>>

\* Two of them are hashed, as a collection hashes its keys.
HashKeys ==
    /\ ci.pc = "compared"
    /\ ci' = [ci EXCEPT !.pc = "hashed", !.hashed =
            [a |-> CiString_hash(ci.a), b |-> CiString_hash(ci.b),
             ref_a |-> CiStr_hash(as_ref(ci.a)), ref_b |-> CiStr_hash(as_ref(ci.b))]]
    /\ UNCHANGED <<queue, worker, idle, marker, users, objects, nextSalt, submitted, replied>>

\* The same two are borrowed as str, as a lookup by &str borrows them, and
\* the strs compared and hashed.
BorrowKeys ==
    /\ ci.pc = "hashed"
    /\ ci' = [ci EXCEPT !.pc = "borrowed", !.borrowed =
            [eq_ab |-> str_eq(borrow(ci.a), borrow(ci.b)),
             cmp_ab |-> str_cmp(borrow(ci.a), borrow(ci.b)),
             hash_a |-> str_hash(borrow(ci.a)), hash_b |-> str_hash(borrow(ci.b))]]
    /\ UNCHANGED <<queue, worker, idle, marker, users, objects, nextSalt, submitted, replied>>

(* ------------------------------ the pool ------------------------------ *)

\* The outcomes of an attempt to lease: the error (or Ok), the connection
\* leased (0 for none) and the session markers afterwards.
Lease(err, conn, mk) == [err |-> err, conn |-> conn, marker |-> mk]

\* connection with the pool's error passed on as a database error.
connection_other_error ==
    {Lease(Ok, c, marker) : c \in idle}
        \cup {Lease(DatabaseError, 0, marker)}

\* DatabaseActor::connection: any idle connection, or the pool's error.
connection ==
    {Lease(Ok, c, marker) : c \in idle}
        \cup {Lease(DatabaseConnectionError, 0, marker)}

\* audited_connection with the DELETE FROM active_user left out: the user's
\* id is added to whatever the session's table holds.
audited_connection_no_delete(user) ==
    UNION {IF o.err # Ok THEN {o}
           ELSE {Lease(Ok, o.conn, [marker EXCEPT ![o.conn] = @ \cup {user}]),
                 Lease(DatabaseError, 0, marker)}
           : o \in connection}

\* DatabaseActor::audited_connection: lease, then CREATE TEMPORARY TABLE IF
\* NOT EXISTS, DELETE FROM active_user, INSERT the user's id. Each statement
\* may fail, which drops the lease.
audited_connection(user) ==
    UNION {IF o.err # Ok THEN {o}
           ELSE {Lease(Ok, o.conn, [marker EXCEPT ![o.conn] = {user}]),
                 Lease(DatabaseError, 0, marker),
                 Lease(DatabaseError, 0, [marker EXCEPT ![o.conn] = {}])}
           : o \in connection}

\* DatabaseActor::connection_for
connection_for(data) ==
    IF data.ext /\ data.user # NoId
    THEN audited_connection(data.user)
    ELSE connection

\* Release with the connection kept out of the pool.
ReleaseLeak(c) == idle

\* The pool after a PooledConnection is dropped.
Release(c) == IF c = 0 THEN idle ELSE idle \cup {c}

(* ---------------------------- the dispatcher -------------------------- *)

\* Enqueue with the message dropped when no worker is free.
EnqueueShed(q, m) ==
    IF \A w \in Workers : worker[w].pc # "idle" THEN q ELSE Append(q, m)

\* The mailbox after a message is sent to the arbiter.
Enqueue(q, m) == Append(q, m)

\* Whether a worker thread may take the next message.
CanTake(w) == worker[w].pc = "idle" /\ queue # <<>>

Init ==
    /\ queue = <<>>
    /\ worker = [w \in Workers |-> IdleWorker]
    /\ idle = Conns
    /\ marker = [c \in Conns |-> {}]
    /\ users = [i \in Ids |-> [salt |-> i, hash |-> PasswordHash(i, InitPassword(i))]]
    /\ objects = [k \in Rows |-> 0]
    /\ nextSalt = MaxUser + 1
    /\ submitted = 0
    /\ replied = 0
    /\ ci = NoCi

\* A caller sends one of the messages of S, while fewer than max were sent.
Submit(S, max) ==
    /\ submitted < max
    /\ \E m \in S : queue' = Enqueue(queue, m)
    /\ submitted' = submitted + 1
    /\ UNCHANGED <<worker, idle, marker, users, objects, nextSalt, replied, ci>>

\* An idle worker thread takes the next message.
Take(w) ==
    /\ CanTake(w)
    /\ worker' = [worker EXCEPT ![w] = [IdleWorker EXCEPT !.pc = "start", !.req = Head(queue)]]
    /\ queue' = Tail(queue)
    /\ UNCHANGED <<idle, marker, users, objects, nextSalt, submitted, replied, ci>>

\* Reply with the thread lost to an error: only a worker whose handler
\* returned Ok goes back to idle.
ReplyFatal(w) ==
    /\ worker[w].pc = "done"
    /\ worker[w].res = Ok
    /\ worker' = [worker EXCEPT ![w] = IdleWorker]
    /\ replied' = replied + 1
    /\ UNCHANGED <<queue, idle, marker, users, objects, nextSalt, submitted, ci>>

\* The handler has returned: the result goes back to the caller, and the
\* thread is free for the next message.
Reply(w) ==
    /\ worker[w].pc = "done"
    /\ worker' = [worker EXCEPT ![w] = IdleWorker]
    /\ replied' = replied + 1
    /\ UNCHANGED <<queue, idle, marker, users, objects, nextSalt, submitted, ci>>

\* The worker's handler returns res: its lease is dropped.
Return(w, res, usr) ==
    /\ worker' = [worker EXCEPT ![w] =
            [@ EXCEPT !.pc = "done", !.conn = 0, !.res = res, !.usr = usr,
                      !.pend = NoWrite]]
    /\ idle' = Release(worker[w].conn)

(* ----------------------- Auth<T> and Invalidate ----------------------- *)

AuthKinds == {"AuthBasic", "AuthToken", "Invalidate"}

\* Handler<Auth<T>>::handle and Handler<Invalidate>::handle up to the lease
\* of the connection the credential is checked on.
AuthStart(w) ==
    LET m == worker[w].req IN
    /\ worker[w].pc = "start"
    /\ m.kind \in AuthKinds
    /\ IF m.kind = "Invalidate" /\ m.cred.type # "Basic"
       THEN Return(w, Unauthorized, NoUser) /\ UNCHANGED marker
       ELSE IF AuthPrecheck(AuthTypeOf(m.kind), m.cred) # ""
       THEN Return(w, AuthPrecheck(AuthTypeOf(m.kind), m.cred), NoUser)
            /\ UNCHANGED marker
       ELSE \E o \in connection :
              IF o.err # Ok
              THEN Return(w, o.err, NoUser) /\ marker' = o.marker
              ELSE /\ worker' = [worker EXCEPT ![w] = [@ EXCEPT !.pc = "auth", !.conn = o.conn]]
                   /\ idle' = idle \ {o.conn}
                   /\ marker' = o.marker
    /\ UNCHANGED <<queue, users, objects, nextSalt, submitted, replied, ci>>

\* AfterAuth with Invalidate returning as soon as the credential is accepted,
\* its PatchMessage never sent.
AfterAuthNoPatch(kind, res) == "done"

\* AfterAuth with the result of the Auth<Basic> handler ignored by Invalidate
\* (the ? left out).
AfterAuthAlwaysPatch(kind, res) ==
    IF kind = "Invalidate" THEN "start_patch" ELSE "done"

\* Where a handler goes once the Auth<T> handler has returned res: Auth<T>
\* returns it; Invalidate returns an error (the ? operator) and otherwise
\* sends itself the PatchMessage.
AfterAuth(kind, res) ==
    IF kind = "Invalidate" /\ res = Ok THEN "start_patch" ELSE "done"

\* AuthExec with the stored hash renewed under a fresh salt whenever a
\* login is accepted.
AuthExecRehash(w) ==
    LET m == worker[w].req
        r == AuthResult(m.kind, m.cred) IN
    /\ worker[w].pc = "auth"
    /\ IF AfterAuth(m.kind, r.res) = "start_patch"
       THEN /\ worker' = [worker EXCEPT ![w] = [@ EXCEPT !.pc = "start_patch", !.conn = 0, !.usr = r.usr]]
            /\ idle' = Release(worker[w].conn)
       ELSE Return(w, r.res, r.usr)
    /\ users' = IF r.res = Ok /\ m.kind # "Invalidate"
                THEN [users EXCEPT ![r.usr.id] =
                        [salt |-> nextSalt, hash |-> PasswordHash(nextSalt, m.cred.password)]]
                ELSE users
    /\ UNCHANGED <<queue, marker, objects, nextSalt, submitted, replied, ci>>

\* The credential is checked against the members table and the lease dropped.
AuthExec(w) ==
    LET m == worker[w].req
        r == AuthResult(m.kind, m.cred) IN
    /\ worker[w].pc = "auth"
    /\ IF AfterAuth(m.kind, r.res) = "start_patch"
       THEN /\ worker' = [worker EXCEPT ![w] = [@ EXCEPT !.pc = "start_patch", !.conn = 0, !.usr = r.usr]]
            /\ idle' = Release(worker[w].conn)
       ELSE Return(w, r.res, r.usr)
    /\ UNCHANGED <<queue, marker, users, objects, nextSalt, submitted, replied, ci>>


(* ------------------------- the resource table ------------------------- *)

\* The ETag of a resource: the hash of its content (P: Hash).
ETag(val) == 10 + val

\* RequestContext::check_if_match: an internal context passes; an external
\* one passes when the precondition token is the object's version.
check_if_match(data, val) == ~data.ext \/ data.ifMatch = ETag(val)

\* Resource-level validation of a Create or Patch input.
Validate(arg) == arg \in Vals

\* Whether another open transaction holds the lock of a row.
Locked(w, table, key) ==
    \E v \in Workers \ {w} :
        worker[v].pend.table = table /\ worker[v].pend.key = key

\* DataOf with Invalidate sending its PatchMessage in the name of the
\* identity it has authenticated.
DataOfAuthenticated(m) ==
    IF m.kind = "Invalidate"
    THEN External(IF \E i \in Ids : UserName(i) = m.cred.username
                  THEN CHOOSE i \in Ids : UserName(i) = m.cred.username
                  ELSE NoId, 0)
    ELSE m.data

\* The RequestData a handler leases with: Invalidate sends its PatchMessage
\* with RequestData::Internal.
DataOf(m) == IF m.kind = "Invalidate" THEN Internal ELSE m.data

\* PatchFetchResult with ctx.check_if_match left out.
PatchFetchResultNoCheck(data, row) == IF row = Absent THEN NotFound ELSE Ok

\* The closure of PatchMessage's transaction up to the mutation: P::get,
\* then ctx.check_if_match.
PatchFetchResult(data, row) ==
    IF row = Absent THEN NotFound
    ELSE IF ~check_if_match(data, row) THEN PreconditionFailed
    ELSE Ok

\* The closure of DeleteMessage's transaction up to the mutation: D::get.
DeleteFetchResult(row) == IF row = Absent THEN NotFound ELSE Ok

CrudKinds == {"Get", "Post", "Patch", "Delete"}
TxKinds == {"Patch", "Delete", "Invalidate"}

\* Whether the worker is about to lease the connection its operation runs on.
AtLease(w) ==
    IF worker[w].pc = "start" THEN worker[w].req.kind \in CrudKinds \cup {"Paginate"}
    ELSE worker[w].pc = "start_patch"

\* self.connection_for(&data)? of the Get, Post, Delete, Patch and Paginate
\* handlers, the Patch handler also as Invalidate calls it.
Acquire(w) ==
    LET m == worker[w].req IN
    /\ AtLease(w)
    /\ \E o \in connection_for(DataOf(m)) :
          IF o.err # Ok
          THEN Return(w, o.err, worker[w].usr) /\ marker' = o.marker
          ELSE /\ worker' = [worker EXCEPT ![w] = [@ EXCEPT !.pc = "conn", !.conn = o.conn]]
               /\ idle' = idle \ {o.conn}
               /\ marker' = o.marker
    /\ UNCHANGED <<queue, users, objects, nextSalt, submitted, replied, ci>>

\* GetExec on a pool whose connections are not to one database: what the
\* second one reads lacks the row.
GetExecByConnection(w) ==
    LET m == worker[w].req
        row == IF worker[w].conn = 1 THEN objects[m.key] ELSE Absent IN
    /\ worker[w].pc = "conn"
    /\ m.kind = "Get"
    /\ worker' = [worker EXCEPT ![w] =
            [@ EXCEPT !.pc = "done", !.conn = 0, !.obj = row,
                      !.res = IF row = Absent THEN NotFound ELSE Ok]]
    /\ idle' = Release(worker[w].conn)
    /\ UNCHANGED <<queue, marker, users, objects, nextSalt, submitted, replied, ci>>

\* Handler<GetMessage>: G::get on the leased connection.
GetExec(w) ==
    LET m == worker[w].req IN
    /\ worker[w].pc = "conn"
    /\ m.kind = "Get"
    /\ worker' = [worker EXCEPT ![w] =
            [@ EXCEPT !.pc = "done", !.conn = 0, !.obj = objects[m.key],
                      !.res = IF objects[m.key] = Absent THEN NotFound ELSE Ok]]
    /\ idle' = Release(worker[w].conn)
    /\ UNCHANGED <<queue, marker, users, objects, nextSalt, submitted, replied, ci>>

\* Handler<PostMessage>: P::create_from validates the input and inserts it;
\* the store's trigger attributes the write to the session's active_user.
PostExec(w) ==
    LET m == worker[w].req
        c == worker[w].conn IN
    /\ worker[w].pc = "conn"
    /\ m.kind = "Post"
    /\ ~Locked(w, "objects", m.key)
    /\ IF ~Validate(m.arg)
       THEN Return(w, ValidationError, NoUser) /\ UNCHANGED objects
       ELSE IF objects[m.key] # Absent
       THEN Return(w, DatabaseError, NoUser) /\ UNCHANGED objects
       ELSE /\ worker' = [worker EXCEPT ![w] =
                   [@ EXCEPT !.pc = "done", !.conn = 0, !.obj = m.arg, !.res = Ok,
                             !.wrote = TRUE, !.by = marker[c]]]
            /\ idle' = Release(c)
            /\ objects' = [objects EXCEPT ![m.key] = m.arg]
    /\ UNCHANGED <<queue, marker, users, nextSalt, submitted, replied, ci>>

\* connection.transaction(|| ...) of the Patch and Delete handlers, first
\* half: the object is fetched and, for a Patch, checked against the
\* precondition token. An error rolls back and returns.
TxFetch(w) ==
    LET m == worker[w].req
        \* Invalidate patches the identity it has just authenticated, whose
        \* row is there: identities are never deleted.
        row == IF m.kind = "Invalidate" THEN 0 ELSE objects[m.key]
        r == IF m.kind = "Delete" THEN DeleteFetchResult(row)
             ELSE PatchFetchResult(DataOf(m), row) IN
    /\ worker[w].pc = "conn"
    /\ m.kind \in TxKinds
    /\ IF r # Ok
       THEN Return(w, r, worker[w].usr)
       ELSE /\ worker' = [worker EXCEPT ![w] = [@ EXCEPT !.pc = "tx", !.obj = row]]
            /\ UNCHANGED idle
    /\ UNCHANGED <<queue, marker, users, objects, nextSalt, submitted, replied, ci>>

\* The statement object.patch(..) or object.delete(..) runs: it waits for the
\* row's lock, acts on the row as committed by then (no row: nothing to
\* change) and keeps the lock until the transaction ends.
StagedWrite(m, usr) ==
    IF m.kind = "Invalidate"
    THEN [table |-> "users", key |-> usr.id, val |-> nextSalt]
    ELSE IF objects[m.key] = Absent THEN NoWrite
    ELSE [table |-> "objects", key |-> m.key,
          val |-> IF m.kind = "Delete" THEN Absent ELSE m.arg]

TxWrite(w) ==
    LET m == worker[w].req
        c == worker[w].conn
        table == IF m.kind = "Invalidate" THEN "users" ELSE "objects"
        key == IF m.kind = "Invalidate" THEN worker[w].usr.id ELSE m.key IN
    /\ worker[w].pc = "tx"
    /\ ~Locked(w, table, key)
    /\ IF m.kind = "Patch" /\ ~Validate(m.arg)
       THEN Return(w, ValidationError, worker[w].usr) /\ UNCHANGED nextSalt
       ELSE /\ worker' = [worker EXCEPT ![w] =
                   [@ EXCEPT !.pc = "staged", !.pend = StagedWrite(m, worker[w].usr),
                             !.wrote = TRUE, !.by = marker[c]]]
            /\ nextSalt' = IF m.kind = "Invalidate" THEN nextSalt + 1 ELSE nextSalt
            /\ UNCHANGED idle
    /\ UNCHANGED <<queue, marker, users, objects, submitted, replied, ci>>

\* The rows after a transaction's write is committed.
UsersAfter(pend, password) ==
    IF pend.table = "users"
    THEN [users EXCEPT ![pend.key] =
            [salt |-> pend.val, hash |-> PasswordHash(pend.val, password)]]
    ELSE users

ObjectsAfter(pend) ==
    IF pend.table = "objects"
    THEN [objects EXCEPT ![pend.key] = pend.val]
    ELSE objects

\* The closure returned Ok: COMMIT, and the handler returns.
TxCommit(w) ==
    /\ worker[w].pc = "staged"
    /\ users' = UsersAfter(worker[w].pend, worker[w].req.cred.password)
    /\ objects' = ObjectsAfter(worker[w].pend)
    /\ Return(w, Ok, worker[w].usr)
    /\ UNCHANGED <<queue, marker, nextSalt, submitted, replied, ci>>

\* TxAbort without the transaction around the closure: the statement that
\* ran stays when the handler returns the error.
TxAbortNoRollback(w) ==
    /\ worker[w].pc = "staged"
    /\ users' = UsersAfter(worker[w].pend, worker[w].req.cred.password)
    /\ objects' = ObjectsAfter(worker[w].pend)
    /\ Return(w, DatabaseError, worker[w].usr)
    /\ UNCHANGED <<queue, marker, nextSalt, submitted, replied, ci>>

\* The statement or the commit failed: ROLLBACK, and the handler returns the
\* database's error.
TxAbort(w) ==
    /\ worker[w].pc = "staged"
    /\ Return(w, DatabaseError, worker[w].usr)
    /\ UNCHANGED <<queue, marker, users, objects, nextSalt, submitted, replied, ci>>


(* ------------------------------ pagination --------------------------- *)

\* The ids of the rows of the table, the values of the pagination column.
Collection(objs) == {k \in Rows : objs[k] # Absent}

Smallest(S) == CHOOSE i \in S : \A j \in S : i <= j
Largest(S) == CHOOSE i \in S : \A j \in S : i >= j

\* ORDER BY the pagination column.
RECURSIVE OrderBy(_)
OrderBy(S) ==
    IF S = {} THEN <<>> ELSE <<Smallest(S)>> \o OrderBy(S \ {Smallest(S)})

\* The paginator's filter: strictly after and strictly before its anchors.
Within(pag, S) ==
    {i \in S : /\ (pag.after = NoAnchor \/ i > pag.after)
               /\ (pag.before = NoAnchor \/ i < pag.before)}

\* The ids of the page: at most limit rows in ascending order, counted from
\* the after anchor, or back from the before anchor when only that is given.
PageIds(pag, S) ==
    LET ids == OrderBy(Within(pag, S))
        n == Len(ids)
        k == IF pag.limit < n THEN pag.limit ELSE n IN
    IF pag.after = NoAnchor /\ pag.before # NoAnchor
    THEN SubSeq(ids, n - k + 1, n)
    ELSE SubSeq(ids, 1, k)

\* P::load: the resources of the page.
load(pag, objs) ==
    LET ids == PageIds(pag, Collection(objs)) IN
    [n \in 1..Len(ids) |-> [id |-> ids[n], val |-> objs[ids[n]]]]

\* Where the page begins and where it ends: its first and last item, or, of
\* an empty page, the place its anchors put it.
PageLow(pag, S) ==
    LET ids == PageIds(pag, S) IN
    IF ids # <<>> THEN ids[1]
    ELSE IF pag.after # NoAnchor THEN pag.after + 1
    ELSE IF pag.before # NoAnchor THEN pag.before
    ELSE 0

PageHigh(pag, S) ==
    LET ids == PageIds(pag, S) IN
    IF ids # <<>> THEN ids[Len(ids)]
    ELSE IF pag.after # NoAnchor THEN pag.after
    ELSE IF pag.before # NoAnchor THEN pag.before - 1
    ELSE 0

\* Paginator::first and ::last: the page at the very start and at the very
\* end of the ordering, None of an empty collection.
first(pag, S) ==
    IF S = {} THEN NoPage ELSE Paginator(Smallest(S) - 1, NoAnchor, pag.limit)

last(pag, S) ==
    IF S = {} THEN NoPage ELSE Paginator(NoAnchor, Largest(S) + 1, pag.limit)

\* Paginator::next: the page right after the current page's last item, None
\* if no item lies beyond it.
next(pag, S) ==
    IF \E i \in S : i > PageHigh(pag, S)
    THEN Paginator(PageHigh(pag, S), NoAnchor, pag.limit)
    ELSE NoPage

\* Paginator::prev: the page right before the current page's first item, None
\* if no item lies before it.
prev(pag, S) ==
    IF \E i \in S : i < PageLow(pag, S)
    THEN Paginator(NoAnchor, PageLow(pag, S), pag.limit)
    ELSE NoPage

\* serde_urlencoded::ser::to_string(d): the fields as key=value pairs joined
\* by &, a field that is None left out.
to_string(pag) ==
    "limit=" \o ToString(pag.limit)
        \o (IF pag.after = NoAnchor THEN "" ELSE "&after=" \o ToString(pag.after))
        \o (IF pag.before = NoAnchor THEN "" ELSE "&before=" \o ToString(pag.before))

\* .map(|d| format!("<{}?{}>; rel=..", msg.1, to_string(d))) of an
\* Option<D> ("" is None).
Link(base, pag, rel) ==
    IF pag = NoPage THEN ""
    ELSE "<" \o base \o "?" \o to_string(pag) \o ">; rel=" \o rel

\* .filter_map(|x| x): the entries that are Some.
filter_map(entries) == SelectSeq(entries, LAMBDA x : x # "")

\* .join_with(sep).to_string()
RECURSIVE join_with(_, _)
join_with(entries, sep) ==
    IF entries = <<>> THEN ""
    ELSE IF Len(entries) = 1 THEN entries[1]
    ELSE entries[1] \o sep \o join_with(Tail(entries), sep)

\* Header with the entries joined in the order they were computed in.
HeaderInQueryOrder(nav) ==
    join_with(filter_map(<<nav.first, nav.last, nav.next, nav.prev>>), ",")

\* vec![first, next, prev, last].into_iter().filter_map(|x| x).join_with(",")
Header(nav) ==
    join_with(filter_map(<<nav.first, nav.next, nav.prev, nav.last>>), ",")

\* Handler<PaginateMessage>::handle runs five statements, one after the
\* other, outside any transaction: each reads the rows committed when it
\* runs, and each may fail (the ? operator), which returns the error.

\* A query of the Paginate handler: it returns the database's error, or the
\* worker goes on to pc to with the locals set.
Queried(w, to, locals) ==
    \E ok \in BOOLEAN :
        IF ~ok THEN Return(w, DatabaseError, worker[w].usr)
        ELSE /\ worker' = [worker EXCEPT ![w] =
                    [locals EXCEPT !.pc = to, !.saw = Append(@, objects)]]
             /\ UNCHANGED idle

\* let result = P::load(&msg.0, ctx)?;
PageLoad(w) ==
    LET m == worker[w].req IN
    /\ worker[w].pc = "conn"
    /\ m.kind = "Paginate"
    /\ Queried(w, "loaded", [worker[w] EXCEPT !.result = load(m.pag, objects)])
    /\ UNCHANGED <<queue, marker, users, objects, nextSalt, submitted, replied, ci>>

\* let first = msg.0.first(connection)?.map(..);
PageFirst(w) ==
    LET m == worker[w].req IN
    /\ worker[w].pc = "loaded"
    /\ Queried(w, "first",
               [worker[w] EXCEPT !.nav.first =
                    Link(m.base, first(m.pag, Collection(objects)), "first")])
    /\ UNCHANGED <<queue, marker, users, objects, nextSalt, submitted, replied, ci>>

\* PageLast computed from the rows the page was loaded from, not from the
\* rows committed when its query runs.
PageLastOnLoaded(w) ==
    LET m == worker[w].req IN
    /\ worker[w].pc = "first"
    /\ Queried(w, "last",
               [worker[w] EXCEPT !.nav.last =
                    Link(m.base, last(m.pag, Collection(worker[w].saw[1])), "last")])
    /\ UNCHANGED <<queue, marker, users, objects, nextSalt, submitted, replied, ci>>

\* let last = msg.0.last(connection)?.map(..);
PageLast(w) ==
    LET m == worker[w].req IN
    /\ worker[w].pc = "first"
    /\ Queried(w, "last",
               [worker[w] EXCEPT !.nav.last =
                    Link(m.base, last(m.pag, Collection(objects)), "last")])
    /\ UNCHANGED <<queue, marker, users, objects, nextSalt, submitted, replied, ci>>

\* PageNext with the paginator's prev called for the rel=next link.
PageNextAsPrev(w) ==
    LET m == worker[w].req IN
    /\ worker[w].pc = "last"
    /\ Queried(w, "next",
               [worker[w] EXCEPT !.nav.next =
                    Link(m.base, prev(m.pag, Collection(objects)), "next")])
    /\ UNCHANGED <<queue, marker, users, objects, nextSalt, submitted, replied, ci>>

\* let next = msg.0.next(connection)?.map(..);
PageNext(w) ==
    LET m == worker[w].req IN
    /\ worker[w].pc = "last"
    /\ Queried(w, "next",
               [worker[w] EXCEPT !.nav.next =
                    Link(m.base, next(m.pag, Collection(objects)), "next")])
    /\ UNCHANGED <<queue, marker, users, objects, nextSalt, submitted, replied, ci>>

\* let prev = msg.0.prev(connection)?.map(..); the header is joined and the
\* handler returns Ok((result, header)).
PagePrev(w) ==
    LET m == worker[w].req
        nav == [worker[w].nav EXCEPT !.prev =
                    Link(m.base, prev(m.pag, Collection(objects)), "prev")] IN
    /\ worker[w].pc = "next"
    /\ \E ok \in BOOLEAN :
          IF ~ok THEN Return(w, DatabaseError, worker[w].usr)
          ELSE /\ worker' = [worker EXCEPT ![w] =
                      [@ EXCEPT !.pc = "done", !.conn = 0, !.res = Ok,
                                !.nav = nav, !.header = Header(nav),
                                !.saw = Append(@, objects)]]
               /\ idle' = Release(worker[w].conn)
    /\ UNCHANGED <<queue, marker, users, objects, nextSalt, submitted, replied, ci>>

PageSteps(w) ==
    \/ PageLoad(w)
    \/ PageFirst(w)
    \/ PageLast(w)
    \/ PageNext(w)
    \/ PagePrev(w)

(* ------------------------------ messages ------------------------------ *)

BasicCreds == {BasicCred(n, p) : n \in Names, p \in Passwords}

\* The credential of identity i when the behaviour starts.
GoodCred(i) == BasicCred(UserName(i), InitPassword(i))

\* Tokens issued to an identity before the behaviour starts, signed with the
\* salt it had then, some of them expired by now.
IssuedTokens ==
    {Token(TRUE, i, i, c, e) : i \in Ids, c \in Csrfs, e \in BOOLEAN}

\* Tokens whose claimed id is not their signer: unsigned (key 0), or signed
\* with another identity's key, or naming an id no identity has.
ForgedTokens ==
    {Token(TRUE, i, k, 1, FALSE) : i \in Ids \cup {NoId}, k \in 0..MaxUser} \ IssuedTokens

TokenCreds ==
    {TokenCred(t, c) : t \in IssuedTokens, c \in 0..MaxCsrf}
    \cup {TokenCred(t, 0) : t \in ForgedTokens \cup {NoToken}}

\* The RequestData a caller may attach: internal, or external with or
\* without an authenticated user and with a precondition token.
Datas ==
    {Internal} \cup {External(u, ETag(v)) : u \in Ids \cup {NoId}, v \in Vals}

BasicMsgs ==
    {Msg("AuthBasic", c, Internal, 0, 0) : c \in BasicCreds \cup {TokenCred(NoToken, 0)}}
    \cup {Msg("Invalidate", c, Internal, 0, 0) : c \in BasicCreds \cup {TokenCred(NoToken, 0)}}

TokenMsgs ==
    {Msg("AuthToken", c, Internal, 0, 0) : c \in TokenCreds \cup {GoodCred(1)}}
    \cup {Msg("Invalidate", c, Internal, 0, 0) :
            c \in {GoodCred(i) : i \in Ids} \cup {BasicCred(UnknownName, 1)}}

\* Patch, Delete and Create of one user, with every precondition token and
\* with valid and invalid input.
TxMsgs ==
    LET D == {Internal} \cup {External(1, ETag(v)) : v \in Vals} IN
    {Msg("Patch", NoCred, d, k, a) : d \in D, k \in Keys, a \in 0..(MaxVal + 1)}
    \cup {Msg("Delete", NoCred, d, k, 0) : d \in D, k \in Keys}
    \cup {Msg("Post", NoCred, Internal, k, a) : k \in Keys, a \in {0, MaxVal + 1}}

\* The four operations under every kind of context.
AuditMsgs ==
    LET D == {Internal} \cup {External(u, ETag(0)) : u \in Ids \cup {NoId}} IN
    {Msg("Get", NoCred, d, k, 0) : d \in D, k \in Keys}
    \cup {Msg("Post", NoCred, d, k, 0) : d \in D, k \in Keys}
    \cup {Msg("Patch", NoCred, d, k, 1) : d \in D, k \in Keys}
    \cup {Msg("Delete", NoCred, d, k, 0) : d \in D, k \in Keys}

\* A handler that only reads and one that runs a transaction.
DispatchMsgs ==
    {Msg("Get", NoCred, Internal, 1, 0),
     Msg("Delete", NoCred, Internal, 1, 0)}

\* The paginators a caller may send: a page after an anchor, or before one.
Paginators ==
    {Paginator(a, NoAnchor, k) : a \in {NoAnchor} \cup Rows, k \in Limits}
    \cup {Paginator(NoAnchor, b, k) : b \in Rows, k \in Limits}

\* The base of the navigation links.
Base == "/demons"

\* Every listing.
ListMsgs == {PaginateMessage(p, Base, Internal) : p \in Paginators}

\* The handlers that only read.
ReadMsgs ==
    {Msg("Get", NoCred, d, 1, 0) : d \in {Internal, External(1, ETag(0))}}
    \cup {PaginateMessage(Paginator(a, NoAnchor, 1), Base, Internal) : a \in {NoAnchor, 1}}

\* A listing, and the writes that change what it lists.
PageMsgs ==
    {PaginateMessage(Paginator(a, NoAnchor, 1), Base, Internal) : a \in {NoAnchor, 1}}
    \cup {Msg("Delete", NoCred, Internal, k, 0) : k \in Rows}
    \cup {Msg("Post", NoCred, Internal, k, 0) : k \in Rows}

\* One message for each error a handler can return.
LiveMsgs ==
    {Msg("AuthBasic", BasicCred(UnknownName, 1), Internal, 0, 0),
     Msg("Get", NoCred, Internal, 1, 0),
     Msg("Post", NoCred, Internal, 1, 0),
     Msg("Delete", NoCred, Internal, 1, 0),
     Msg("Patch", NoCred, External(1, ETag(MaxVal)), 1, MaxVal),
     Msg("Patch", NoCred, Internal, 1, MaxVal + 1),
     PaginateMessage(Paginator(NoAnchor, NoAnchor, 1), Base, Internal)}

\* One message for each handler that leases with connection_for.
ConnMsgs ==
    {Msg("Get", NoCred, Internal, 1, 0),
     Msg("Post", NoCred, Internal, 1, 0),
     Msg("Delete", NoCred, Internal, 1, 0),
     Msg("Patch", NoCred, External(1, ETag(0)), 1, MaxVal),
     PaginateMessage(Paginator(NoAnchor, NoAnchor, 1), Base, Internal)}

\* Logins of both types, each with a credential of its own variant, accepted
\* and refused, and with one of the other variant; beside them an Invalidate
\* and a Get in the name of an identity, which write the tables and a marker.
AuthMsgs ==
    LET token == Token(TRUE, 1, 1, 1, FALSE) IN
    {Msg("AuthBasic", c, Internal, 0, 0) :
        c \in {GoodCred(1), BasicCred(UserName(1), 1 + (InitPassword(1) % MaxPassword)),
               TokenCred(token, 0)}}
    \cup {Msg("AuthToken", c, Internal, 0, 0) :
        c \in {TokenCred(token, 0), TokenCred(token, 1 + (1 % MaxCsrf)), GoodCred(1)}}
    \cup {Msg("Invalidate", GoodCred(1), Internal, 0, 0),
          Msg("Get", NoCred, External(1, ETag(0)), 1, 0)}

AllMsgs ==
    BasicMsgs \cup TokenMsgs \cup TxMsgs \cup AuditMsgs \cup DispatchMsgs
        \cup ListMsgs \cup ReadMsgs \cup PageMsgs \cup LiveMsgs \cup ConnMsgs
        \cup AuthMsgs

(* --------------------------- specifications --------------------------- *)

AuthSteps(w) ==
    \/ AuthStart(w)
    \/ AuthExec(w)

TxSteps(w) ==
    \/ Acquire(w)
    \/ TxFetch(w)
    \/ TxWrite(w)
    \/ TxCommit(w)
    \/ TxAbort(w)

\* Every message, every handler.
Next ==
    \/ Submit(AllMsgs, MaxRequests)
    \/ \E w \in Workers :
        \/ Take(w)
        \/ AuthSteps(w)
        \/ TxSteps(w)
        \/ GetExec(w)
        \/ PostExec(w)
        \/ PageSteps(w)
        \/ Reply(w)

Spec == Init /\ [][Next]_vars

\* Password logins and invalidations.
NextBasic ==
    \/ Submit(BasicMsgs, MaxBasicRequests)
    \/ \E w \in Workers :
        \/ Take(w)
        \/ AuthSteps(w)
        \/ TxSteps(w)
        \/ Reply(w)

SpecBasic == Init /\ [][NextBasic]_vars

\* Token logins and invalidations.
NextToken ==
    \/ Submit(TokenMsgs, MaxTokenRequests)
    \/ \E w \in Workers :
        \/ Take(w)
        \/ AuthSteps(w)
        \/ TxSteps(w)
        \/ Reply(w)

SpecToken == Init /\ [][NextToken]_vars

\* Transactions on the resource table.
NextTx ==
    \/ Submit(TxMsgs, MaxTxRequests)
    \/ \E w \in Workers :
        \/ Take(w)
        \/ TxSteps(w)
        \/ PostExec(w)
        \/ Reply(w)

SpecTx == Init /\ [][NextTx]_vars

\* Audited and plain leases of the pooled connections.
NextAudit ==
    \/ Submit(AuditMsgs, MaxAuditRequests)
    \/ \E w \in Workers :
        \/ Take(w)
        \/ TxSteps(w)
        \/ GetExec(w)
        \/ PostExec(w)
        \/ Reply(w)

SpecAudit == Init /\ [][NextAudit]_vars

\* More messages than workers, more workers than connections.
NextDispatch ==
    \/ Submit(DispatchMsgs, MaxDispatchRequests)
    \/ \E w \in Workers :
        \/ Take(w)
        \/ TxSteps(w)
        \/ GetExec(w)
        \/ Reply(w)

SpecDispatch == Init /\ [][NextDispatch]_vars

\* A table of any rows, which nothing changes.
InitRead ==
    /\ queue = <<>>
    /\ worker = [w \in Workers |-> IdleWorker]
    /\ idle = Conns
    /\ marker = [c \in Conns |-> {}]
    /\ users = [i \in Ids |-> [salt |-> i, hash |-> PasswordHash(i, InitPassword(i))]]
    /\ objects \in [Rows -> {0, Absent}]
    /\ nextSalt = MaxUser + 1
    /\ submitted = 0
    /\ replied = 0
    /\ ci = NoCi

\* One listing of a table of any rows.
NextList ==
    \/ Submit(ListMsgs, MaxListRequests)
    \/ \E w \in Workers :
        \/ Take(w)
        \/ Acquire(w)
        \/ PageSteps(w)
        \/ Reply(w)

SpecList == InitRead /\ [][NextList]_vars

\* A Paginate handler about to run its last query, the three before it having
\* found the rows of any three tables (other workers commit between them).
InitRender ==
    \E pag \in {Paginator(a, NoAnchor, 1) : a \in {NoAnchor, 1}},
       o1, o2, o3 \in [Rows -> {0, Absent}] :
        /\ queue = <<>>
        /\ worker = [w \in Workers |->
              IF w # 1 THEN IdleWorker
              ELSE [IdleWorker EXCEPT
                      !.pc = "next", !.conn = 1,
                      !.req = PaginateMessage(pag, Base, Internal),
                      !.result = load(pag, o1),
                      !.nav = [first |-> Link(Base, first(pag, Collection(o1)), "first"),
                               last |-> Link(Base, last(pag, Collection(o2)), "last"),
                               next |-> Link(Base, next(pag, Collection(o3)), "next"),
                               prev |-> ""],
                      !.saw = <<o1, o1, o2, o3>>]]
        /\ idle = Conns \ {1}
        /\ marker = [c \in Conns |-> {}]
        /\ users = [i \in Ids |-> [salt |-> i, hash |-> PasswordHash(i, InitPassword(i))]]
        /\ objects \in [Rows -> {0, Absent}]
        /\ nextSalt = MaxUser + 1
        /\ submitted = 1
        /\ replied = 0
        /\ ci = NoCi

\* The last query, the header and the reply.
NextRender ==
    \E w \in Workers :
        \/ PagePrev(w)
        \/ Reply(w)

SpecRender == InitRender /\ [][NextRender]_vars

\* Fetches and listings of a table nothing writes to.
NextRead ==
    \/ Submit(ReadMsgs, MaxReadRequests)
    \/ \E w \in Workers :
        \/ Take(w)
        \/ Acquire(w)
        \/ GetExec(w)
        \/ PageSteps(w)
        \/ Reply(w)

SpecRead == InitRead /\ [][NextRead]_vars

\* Listings of a table other workers write to.
NextPage ==
    \/ Submit(PageMsgs, MaxPageRequests)
    \/ \E w \in Workers :
        \/ Take(w)
        \/ TxSteps(w)
        \/ PostExec(w)
        \/ PageSteps(w)
        \/ Reply(w)

SpecPage == Init /\ [][NextPage]_vars

\* More requests than the pool has connections.
NextConn ==
    \/ Submit(ConnMsgs, MaxConnRequests)
    \/ \E w \in Workers :
        \/ Take(w)
        \/ TxSteps(w)
        \/ GetExec(w)
        \/ PostExec(w)
        \/ PageSteps(w)
        \/ Reply(w)

SpecConn == Init /\ [][NextConn]_vars

\* Logins while another worker rotates a salt and a connection carries a
\* marker.
NextAuth ==
    \/ Submit(AuthMsgs, MaxAuthRequests)
    \/ \E w \in Workers :
        \/ Take(w)
        \/ AuthSteps(w)
        \/ TxSteps(w)
        \/ GetExec(w)
        \/ Reply(w)

SpecAuth == Init /\ [][NextAuth]_vars

\* Any three strings as CiStrings.
InitCi ==
    /\ queue = <<>>
    /\ worker = [w \in Workers |-> IdleWorker]
    /\ idle = Conns
    /\ marker = [c \in Conns |-> {}]
    /\ users = [i \in Ids |-> [salt |-> i, hash |-> PasswordHash(i, InitPassword(i))]]
    /\ objects = [k \in Rows |-> 0]
    /\ nextSalt = MaxUser + 1
    /\ submitted = 0
    /\ replied = 0
    /\ \E a, b, c \in Strs : ci = Fresh(CiString(a), CiString(b), CiString(c))

NextCi ==
    \/ Compare
    \/ HashKeys
    \/ BorrowKeys

SpecCi == InitCi /\ [][NextCi]_vars

\* What a worker thread of the arbiter does.
WorkerStep(w) ==
    \/ Take(w)
    \/ AuthSteps(w)
    \/ TxSteps(w)
    \/ GetExec(w)
    \/ PostExec(w)
    \/ PageSteps(w)
    \/ Reply(w)

\* Every handler, with every worker thread scheduled again and again: a
\* thread that can go on does go on.
NextLive ==
    \/ Submit(LiveMsgs, MaxLiveRequests)
    \/ \E w \in Workers : WorkerStep(w)

SpecLive ==
    Init /\ [][NextLive]_vars /\ \A w \in Workers : WF_vars(WorkerStep(w))

(* ------------------------------ properties ---------------------------- *)

\* The step on which worker w's handler returns.
Returns(w) == worker[w].pc # "done" /\ worker'[w].pc = "done"

\* The step on which worker w, holding its lease, checks the credential of an
\* Auth<T> message of the given kind.
Checks(w, kind) ==
    worker[w].pc = "auth" /\ worker'[w].pc # "auth" /\ worker[w].req.kind = kind

\* The identity a Basic credential names, NoId if none.
Named(cred) ==
    IF \E i \in Ids : UserName(i) = cred.username
    THEN CHOOSE i \in Ids : UserName(i) = cred.username
    ELSE NoId

\* C1: token round trip. An unexpired token issued to identity I under salt
\* S1, presented on a leased connection with no or the right CSRF value, is
\* accepted exactly while I's current salt is S1; and when an Invalidate for I
\* returns Ok, I's salt is one that no token issued before verifies against,
\* so each of them is refused from then on.
TokenRoundTrip ==
    [][\A w \in Workers :
        LET m == worker[w].req
            t == m.cred.token IN
        /\ (/\ Checks(w, "AuthToken")
            /\ t \in IssuedTokens /\ ~t.exp /\ m.cred.csrf \in {0, t.csrf})
           => worker'[w].res = IF users[t.id].salt = t.key THEN Ok ELSE Unauthorized
        /\ (Returns(w) /\ m.kind = "Invalidate" /\ worker'[w].res = Ok)
           => /\ Named(m.cred) \in Ids
              /\ \A u \in IssuedTokens :
                    u.id = Named(m.cred) => users'[u.id].salt # u.key
              /\ users'[Named(m.cred)].salt < nextSalt'
    ]_vars

\* C1 witness: a token that was good when the behaviour began has been refused
\* after its identity's salt changed.
TokenRoundTripWitness ==
    \E w \in Workers :
        LET m == worker[w].req
            t == m.cred.token IN
        /\ worker[w].pc = "done" /\ m.kind = "AuthToken"
        /\ t \in IssuedTokens /\ ~t.exp /\ m.cred.csrf = 0
        /\ users[t.id].salt # t.key
        /\ worker[w].res = Unauthorized

\* C2: on a leased connection, Authenticate(Basic{username, password}) returns
\* Ok, with the identity of that name, iff the name is a stored identity's and
\* the password hashes to its stored hash; otherwise it returns Unauthorized,
\* for an unknown name as for a wrong password.
BasicAuthIff ==
    [][\A w \in Workers :
        LET m == worker[w].req
            i == Named(m.cred) IN
        Checks(w, "AuthBasic") =>
            IF i \in Ids /\ users[i].hash = PasswordHash(users[i].salt, m.cred.password)
            THEN worker'[w].res = Ok /\ worker'[w].usr.id = i
            ELSE worker'[w].res = Unauthorized
    ]_vars

\* C2 witness: a password login has succeeded against a hash made with a
\* rotated salt.
BasicAuthIffWitness ==
    \E w \in Workers :
        /\ worker[w].pc = "done" /\ worker[w].req.kind = "AuthBasic"
        /\ worker[w].res = Ok
        /\ worker[w].usr.salt > MaxUser

\* C3: Authenticate(Token) returns Ok only from the check on its leased
\* connection, only for a decodable, unexpired token whose signing key is the
\* current salt of the identity its payload claims, and the identity it
\* returns is that one.
TokenOnlyIfVerified ==
    [][\A w \in Workers :
        LET m == worker[w].req
            t == m.cred.token IN
        (Returns(w) /\ m.kind = "AuthToken" /\ worker'[w].res = Ok) =>
            /\ worker[w].pc = "auth"
            /\ m.cred.type = "Token" /\ t.wf /\ ~t.exp
            /\ t.id \in Ids
            /\ t.key = users[t.id].salt
            /\ worker'[w].usr = UserGetById(t.id)
    ]_vars

\* C3 witness: a token claiming one identity and signed with another's key has
\* been refused.
TokenOnlyIfVerifiedWitness ==
    \E w \in Workers :
        LET t == worker[w].req.cred.token IN
        /\ worker[w].pc = "done" /\ worker[w].req.kind = "AuthToken"
        /\ t.id \in Ids /\ t.key \in Ids /\ t.key # t.id /\ ~t.exp
        /\ users[t.key].salt = t.key
        /\ worker[w].res = Unauthorized

\* C4: for a token that verifies under the current salt of the identity it
\* claims, Authenticate(Token) on its leased connection returns Ok when the
\* request carries the CSRF value the token embeds or none, and Unauthorized
\* when it carries any other.
CsrfBinding ==
    [][\A w \in Workers :
        LET m == worker[w].req
            t == m.cred.token IN
        (/\ Checks(w, "AuthToken")
         /\ t.id \in Ids /\ t.key = users[t.id].salt /\ ~t.exp)
        => worker'[w].res =
              IF m.cred.csrf = 0 \/ m.cred.csrf = t.csrf THEN Ok ELSE Unauthorized
    ]_vars

\* C4 witness: a token that still verifies has been refused for a CSRF value
\* other than its own.
CsrfBindingWitness ==
    \E w \in Workers :
        LET m == worker[w].req
            t == m.cred.token IN
        /\ worker[w].pc = "done" /\ m.kind = "AuthToken"
        /\ t.id \in Ids /\ t.key = users[t.id].salt /\ ~t.exp
        /\ m.cred.csrf # 0 /\ m.cred.csrf # t.csrf
        /\ worker[w].res = Unauthorized

\* C5: a Patch whose external context carries a precondition token other
\* than the version of the object it fetches returns PreconditionFailed from
\* the fetch, having written nothing, and the tables are as before.
PatchPrecondition ==
    [][\A w \in Workers :
        LET m == worker[w].req
            row == objects[m.key] IN
        (/\ worker[w].pc = "conn" /\ worker'[w].pc # "conn"
         /\ m.kind = "Patch" /\ m.data.ext
         /\ row # Absent /\ m.data.ifMatch # ETag(row))
        => /\ worker'[w].pc = "done"
           /\ worker'[w].res = PreconditionFailed
           /\ ~worker'[w].wrote
           /\ objects' = objects /\ users' = users
    ]_vars

\* C5 witness: a Patch has returned PreconditionFailed without writing, and the
\* object still has the version its token did not match.
PatchPreconditionWitness ==
    \E w \in Workers :
        LET m == worker[w].req IN
        /\ worker[w].pc = "done" /\ m.kind = "Patch" /\ m.data.ext
        /\ worker[w].res = PreconditionFailed /\ ~worker[w].wrote
        /\ objects[m.key] # Absent /\ m.data.ifMatch # ETag(objects[m.key])

\* C6: of two Delete requests for the same key, the only messages sent, at
\* most one returns Ok.
DeleteAtMostOneOk ==
    \A v, w \in Workers :
        (/\ v # w /\ submitted = 2
         /\ worker[v].pc = "done" /\ worker[w].pc = "done"
         /\ worker[v].req.kind = "Delete" /\ worker[w].req.kind = "Delete"
         /\ worker[v].req.key = worker[w].req.key)
        => ~(worker[v].res = Ok /\ worker[w].res = Ok)

\* C7: when a Patch runs its mutation, the object is as the Patch fetched it
\* and checked it against the precondition token.
PatchNoGap ==
    [][\A w \in Workers :
        LET m == worker[w].req IN
        (worker[w].pc = "tx" /\ worker'[w].pc = "staged" /\ m.kind = "Patch")
        => objects[m.key] = worker[w].obj
    ]_vars

\* The requests that write.
WritesOf(w) == worker[w].req.kind \in {"Post", "Patch", "Delete"}

\* C8: a Create, Patch or Delete with an external context of identity U holds,
\* from its lease to its return, a connection whose active_user table has the
\* one row U, and what it writes is attributed to U.
AuditedWrites ==
    \A w \in Workers :
        LET m == worker[w].req IN
        (WritesOf(w) /\ m.data.ext /\ m.data.user # NoId)
        => /\ worker[w].pc \in {"conn", "tx", "staged"}
                => marker[worker[w].conn] = {m.data.user}
           /\ worker[w].wrote => worker[w].by = {m.data.user}

\* C8 witness: one identity's write has committed, and another identity is
\* writing on the only connection that has ever carried a marker, the one the
\* first wrote on.
AuditedWritesWitness ==
    \E v, w \in Workers :
        LET a == worker[v].req
            b == worker[w].req IN
        /\ worker[v].pc = "done" /\ worker[v].res = Ok /\ worker[v].wrote
        /\ WritesOf(v) /\ a.data.ext /\ a.data.user # NoId
        /\ worker[w].pc = "staged" /\ WritesOf(w)
        /\ b.data.ext /\ b.data.user # NoId /\ b.data.user # a.data.user
        /\ worker[w].by = {b.data.user}
        /\ \A c \in Conns \ {worker[w].conn} : marker[c] = {}

\* C9: a connection is either in the pool or held by exactly one worker, and a
\* worker holds one exactly while its handler is between its lease and its
\* return.
LeaseExclusive ==
    /\ \A c \in Conns :
        Cardinality({w \in Workers : worker[w].conn = c}) = IF c \in idle THEN 0 ELSE 1
    /\ \A w \in Workers :
        worker[w].conn # 0 <=> worker[w].pc \in {"auth", "conn", "tx", "staged"}

\* C9 witness: one request has returned Ok and one an error, and every
\* connection is back in the pool.
LeaseExclusiveWitness ==
    /\ idle = Conns
    /\ \E v, w \in Workers :
        /\ worker[v].pc = "done" /\ worker[v].res = Ok
        /\ worker[w].pc = "done" /\ worker[w].res = NotFound

\* The workers that have a message in hand.
Busy == {w \in Workers : worker[w].pc # "idle"}

\* C10: every message sent is in the mailbox, with exactly one worker, or
\* answered; a worker without a message is idle; so at most NumWorkers are
\* being handled and none is dropped.
NothingDropped ==
    /\ submitted = Len(queue) + Cardinality(Busy) + replied
    /\ Cardinality(Busy) <= NumWorkers
    /\ \A w \in Workers : worker[w].pc = "idle" <=> worker[w].req = NoMsg

\* C10 witness: every worker is busy and a message waits.
NothingDroppedWitness == Busy = Workers /\ Len(queue) >= 1

\* The errors a handler returns.
Errors ==
    {DatabaseConnectionError, Unauthorized, NotFound, PreconditionFailed,
     ValidationError, DatabaseError}

\* C11: a worker whose handler has returned an error goes back to idle, and
\* under fair scheduling of the workers the n-th message sent is answered,
\* whatever the messages before it returned.
ErrorsNotFatal ==
    /\ \A w \in Workers :
          (worker[w].pc = "done" /\ worker[w].res \in Errors)
              ~> (worker[w].pc = "idle")
    /\ \A n \in 1..MaxLiveRequests : (submitted >= n) ~> (replied >= n)

\* C11 witness: a handler has returned an error while another message waits
\* in the mailbox.
ErrorsNotFatalWitness ==
    /\ \E w \in Workers : worker[w].pc = "done" /\ worker[w].res \in Errors
    /\ queue # <<>>

\* C12: the step on which a Patch or Delete returns an error leaves every
\* table as it was, and a row changes only on the step on which a Create,
\* Patch or Delete returns Ok.
RollbackOnError ==
    [][/\ \A w \in Workers :
            (/\ Returns(w) /\ worker[w].req.kind \in {"Patch", "Delete"}
             /\ worker'[w].res \in Errors)
            => objects' = objects /\ users' = users
       /\ objects' # objects =>
            \E w \in Workers :
                Returns(w) /\ WritesOf(w) /\ worker'[w].res = Ok /\ worker'[w].wrote
    ]_vars

\* C12 witness: a Patch or Delete has returned the database's error after its
\* statement ran, and the row is as it fetched it.
RollbackOnErrorWitness ==
    \E w \in Workers :
        LET m == worker[w].req IN
        /\ worker[w].pc = "done" /\ m.kind \in {"Patch", "Delete"}
        /\ worker[w].res = DatabaseError /\ worker[w].wrote
        /\ objects[m.key] = worker[w].obj /\ objects[m.key] # Absent

\* C13: an Invalidate with a credential that is not Basic returns
\* Unauthorized at once; one whose Basic credential the check on its leased
\* connection refuses returns Unauthorized from that check; and an Invalidate
\* that returns Unauthorized has written nothing, so that every salt and hash
\* is as before and the tokens that verified still verify.
InvalidateRefused ==
    [][\A w \in Workers :
        LET m == worker[w].req
            i == Named(m.cred) IN
        /\ (/\ worker[w].pc = "start" /\ worker'[w].pc # "start"
            /\ m.kind = "Invalidate" /\ m.cred.type # "Basic")
           => worker'[w].pc = "done" /\ worker'[w].res = Unauthorized
        /\ (/\ Checks(w, "Invalidate")
            /\ ~(i \in Ids /\ users[i].hash = PasswordHash(users[i].salt, m.cred.password)))
           => worker'[w].pc = "done" /\ worker'[w].res = Unauthorized
        /\ (Returns(w) /\ m.kind = "Invalidate" /\ worker'[w].res = Unauthorized)
           => /\ ~worker'[w].wrote
              /\ users' = users
              /\ \A t \in IssuedTokens :
                    validate_token(UserGetById(t.id), t)
                        => validate_token(UserGetById(t.id), t)'
    ]_vars

\* C13 witness: an Invalidate naming a stored identity with a wrong password
\* has returned Unauthorized, and the identity's salt and hash are those it
\* began with.
InvalidateRefusedWitness ==
    \E w \in Workers :
        LET m == worker[w].req
            i == Named(m.cred) IN
        /\ worker[w].pc = "done" /\ m.kind = "Invalidate"
        /\ m.cred.type = "Basic" /\ i \in Ids
        /\ m.cred.password # InitPassword(i)
        /\ worker[w].res = Unauthorized
        /\ users[i] = [salt |-> i, hash |-> PasswordHash(i, InitPassword(i))]

\* The ids of a page of resources.
IdsOf(result) == [n \in 1..Len(result) |-> result[n].id]

\* C14: of a table nothing writes to, a Paginate anchored after a with page
\* size k returns the k smallest rows greater than a (all of them if there
\* are fewer) in ascending order; it has a next link, to the page after its
\* last item, iff a row lies beyond that item, and a prev link iff a row lies
\* at or before a. Of rows 1..100, after 50 with size 25, the page is 51..75
\* and both links are there.
PageAfterAnchor ==
    /\ \A w \in Workers :
        LET m == worker[w].req
            a == m.pag.after
            k == m.pag.limit
            S == Collection(objects)
            G == {i \in S : i > a}
            ids == IdsOf(worker[w].result)
            P == {ids[n] : n \in 1..Len(ids)} IN
        (/\ worker[w].pc = "done" /\ worker[w].res = Ok /\ m.kind = "Paginate"
         /\ a # NoAnchor /\ m.pag.before = NoAnchor)
        => /\ Len(ids) = IF Cardinality(G) < k THEN Cardinality(G) ELSE k
           /\ \A n \in 1..(Len(ids) - 1) : ids[n] < ids[n + 1]
           /\ P \subseteq G
           /\ \A i \in P, j \in G \ P : i < j
           /\ \A n \in 1..Len(ids) : worker[w].result[n].val = objects[ids[n]]
           /\ worker[w].nav.next # "" <=> G \ P # {}
           /\ G \ P # {} =>
                worker[w].nav.next =
                    Link(m.base, Paginator(ids[Len(ids)], NoAnchor, k), "next")
           /\ worker[w].nav.prev # "" <=> \E i \in S : i <= a
    \* The instance does not depend on the state: it is evaluated once, in
    \* the initial states.
    /\ submitted = 0 =>
        /\ PageIds(Paginator(50, NoAnchor, 25), 1..100) = [n \in 1..25 |-> 50 + n]
        /\ next(Paginator(50, NoAnchor, 25), 1..100) # NoPage
        /\ prev(Paginator(50, NoAnchor, 25), 1..100) # NoPage

\* C14 witness: a page has been returned that is full, with rows before its
\* anchor and rows beyond its last item.
PageAfterAnchorWitness ==
    \E w \in Workers :
        LET m == worker[w].req
            ids == IdsOf(worker[w].result) IN
        /\ worker[w].pc = "done" /\ worker[w].res = Ok /\ m.kind = "Paginate"
        /\ m.pag.after = 1 /\ m.pag.before = NoAnchor /\ m.pag.limit = 2
        /\ ids = <<2, 3>>
        /\ Collection(objects) = Rows
        /\ worker[w].nav.next # "" /\ worker[w].nav.prev # ""

\* The anchors a link may point to.
Anchors ==
    {Paginator(a, NoAnchor, k) : a \in 0..MaxRow, k \in Limits}
    \cup {Paginator(NoAnchor, b, k) : b \in 1..(MaxRow + 1), k \in Limits}

\* The entries <base?encoded-anchor>; rel=<relation> of one relation.
Entries(base, rel) ==
    {"<" \o base \o "?" \o to_string(d) \o ">; rel=" \o rel : d \in Anchors}

\* The comma between an entry and what follows it: there is one iff both are
\* there.
Comma(entry, rest) == IF entry # "" /\ rest # "" THEN "," ELSE ""

\* C15: the header Paginate returns is the entries of the anchors that are
\* there, each of the form <base?encoded-anchor>; rel=<relation>, in the order
\* first, next, prev, last, with one comma between neighbours and none at
\* either end; with no anchor it is the empty string.
HeaderEntries ==
    \A w \in Workers :
        LET m == worker[w].req
            f == worker[w].nav.first
            n == worker[w].nav.next
            p == worker[w].nav.prev
            l == worker[w].nav.last IN
        (worker[w].pc = "done" /\ worker[w].res = Ok /\ m.kind = "Paginate")
        => /\ f \in {""} \cup Entries(m.base, "first")
           /\ n \in {""} \cup Entries(m.base, "next")
           /\ p \in {""} \cup Entries(m.base, "prev")
           /\ l \in {""} \cup Entries(m.base, "last")
           /\ worker[w].header =
                f \o Comma(f, n \o p \o l) \o n \o Comma(n, p \o l)
                  \o p \o Comma(p, l) \o l
           /\ (f = "" /\ n = "" /\ p = "" /\ l = "") => worker[w].header = ""

\* C15 witness: a header has been returned with a first and a prev entry and
\* neither next nor last.
HeaderEntriesWitness ==
    \E w \in Workers :
        /\ worker[w].pc = "done" /\ worker[w].res = Ok
        /\ worker[w].req.kind = "Paginate"
        /\ worker[w].nav.first # "" /\ worker[w].nav.next = ""
        /\ worker[w].nav.prev # "" /\ worker[w].nav.last = ""
        /\ worker[w].header = worker[w].nav.first \o "," \o worker[w].nav.prev

\* C16: a Get, Post, Delete, Patch or Paginate handler asks the pool once: the
\* step from its start ends with a connection leased or with the handler
\* returned, and with DatabaseConnectionError when the pool has none. A handler
\* that returns DatabaseConnectionError has run no operation and has changed
\* no table and no marker. A message is taken from the mailbox once and a
\* worker that has one starts its handler once.
NoConnectionNoRetry ==
    [][/\ \A w \in Workers :
            LET m == worker[w].req IN
            /\ (/\ worker[w].pc = "start" /\ worker'[w] # worker[w]
                /\ m.kind \in CrudKinds \cup {"Paginate"})
               => /\ worker'[w].pc \in {"conn", "done"}
                  /\ idle = {} =>
                        /\ worker'[w].pc = "done"
                        /\ worker'[w].res = DatabaseConnectionError
            /\ (Returns(w) /\ worker'[w].res = DatabaseConnectionError)
               => /\ worker[w].pc = "start"
                  /\ worker'[w].conn = 0
                  /\ ~worker'[w].wrote
                  /\ worker'[w].obj = Absent /\ worker'[w].result = <<>>
                  /\ worker'[w].saw = <<>>
                  /\ objects' = objects /\ users' = users /\ marker' = marker
                  /\ idle' = idle
            /\ (worker'[w].pc = "start" /\ worker'[w] # worker[w])
               => worker[w].pc = "idle"
       /\ queue' # queue =>
            \/ queue # <<>> /\ queue' = Tail(queue) /\ submitted' = submitted
            \/ Len(queue') = Len(queue) + 1 /\ submitted' = submitted + 1
    ]_vars

\* C16 witness: with every connection leased to other workers, a Paginate has
\* returned DatabaseConnectionError.
NoConnectionNoRetryWitness ==
    \E w \in Workers :
        /\ worker[w].pc = "done" /\ worker[w].req.kind = "Paginate"
        /\ worker[w].res = DatabaseConnectionError
        /\ idle = {}

\* What a handler returned came from its queries, not from a failed lease or
\* a failed statement.
Answered(w) ==
    worker[w].pc = "done" /\ worker[w].res \in {Ok, NotFound}

IdentityLess(m) == ~(m.data.ext /\ m.data.user # NoId)

\* C18: what a Create, Patch or Delete without an identity writes is
\* attributed to no identity, whichever leases the connection it runs on
\* served before.
PlainWritesUnattributed ==
    \A w \in Workers :
        (WritesOf(w) /\ IdentityLess(worker[w].req) /\ worker[w].wrote)
        => worker[w].by = {}

\* The connections some worker other than w holds.
HeldByOthers(w) == {worker[v].conn : v \in Workers \ {w}} \ {0}

\* C19: an Invalidate leases one plain connection to check the credential
\* and has given it back to the pool before it leases the connection of its
\* Patch; that second lease is a plain one too, so that no step of an
\* Invalidate writes a marker; and an Invalidate that returns Ok has gone
\* through both leases in that order.
InvalidateTwoLeases ==
    [][\A w \in Workers :
        LET m == worker[w].req IN
        m.kind = "Invalidate" =>
            /\ (worker[w].pc = "start" /\ worker'[w].pc = "auth")
               => /\ worker'[w].conn \in idle
                  /\ idle' = idle \ {worker'[w].conn}
                  /\ marker' = marker
            /\ (worker[w].pc = "auth" /\ worker'[w].pc = "start_patch")
               => /\ worker[w].conn # 0 /\ worker'[w].conn = 0
                  /\ idle' = idle \cup {worker[w].conn}
                  /\ marker' = marker
            /\ worker[w].pc = "start_patch"
               => /\ worker[w].conn = 0
                  /\ idle \cup HeldByOthers(w) = Conns
            /\ (worker[w].pc = "start_patch" /\ worker'[w].pc = "conn")
               => /\ worker'[w].conn \in idle
                  /\ idle' = idle \ {worker'[w].conn}
                  /\ marker' = marker
            /\ worker'[w].pc = "start_patch" => worker[w].pc \in {"auth", "start_patch"}
            /\ (worker'[w].pc = "conn" /\ worker[w].pc # "conn")
               => worker[w].pc = "start_patch"
            /\ (worker'[w] # worker[w] /\ worker[w].pc # "idle")
               => marker' = marker
            /\ (Returns(w) /\ worker'[w].res = Ok)
               => worker[w].pc = "staged" /\ worker'[w].wrote /\ worker'[w].by = {}
    ]_vars

\* C19 witness: an Invalidate has returned Ok with the salt of its identity
\* rotated, every connection is back in the pool and none carries a marker.
InvalidateTwoLeasesWitness ==
    \E w \in Workers :
        LET m == worker[w].req IN
        /\ worker[w].pc = "done" /\ m.kind = "Invalidate" /\ worker[w].res = Ok
        /\ worker[w].wrote
        /\ users[Named(m.cred)].salt # Named(m.cred)
        /\ idle = Conns
        /\ \A c \in Conns : marker[c] = {}

\* The tables there can be.
Tables == [Rows -> Vals \cup {Absent}]

\* The page and the four links a Paginate request computes on the table objs.
PageOn(m, objs) ==
    [result |-> load(m.pag, objs),
     nav |-> [first |-> Link(m.base, first(m.pag, Collection(objs)), "first"),
              last |-> Link(m.base, last(m.pag, Collection(objs)), "last"),
              next |-> Link(m.base, next(m.pag, Collection(objs)), "next"),
              prev |-> Link(m.base, prev(m.pag, Collection(objs)), "prev")]]

\* Worker w has returned the page and header of a Paginate request.
Listed(w) ==
    worker[w].pc = "done" /\ worker[w].req.kind = "Paginate" /\ worker[w].res = Ok

\* C20 as stated: of every Paginate result there is one table on which the
\* page and the four anchors returned are the ones computed.
OneSnapshot ==
    \A w \in Workers :
        Listed(w) => \E objs \in Tables :
                        PageOn(worker[w].req, objs) = [result |-> worker[w].result,
                                                       nav |-> worker[w].nav]

\* The step of worker w from pc from to pc to.
Goes(w, from, to) == worker[w].pc = from /\ worker'[w].pc = to

\* C20, amended: the page and each of the four anchors of a Paginate result
\* are computed, in the order load, first, last, next, prev, each on the
\* rows committed when its own query runs and with what was computed before
\* kept; and when the five queries saw the same rows, the result is the one
\* computed on that one table.
EachQueryOwnState ==
    [][\A w \in Workers :
         LET m == worker[w].req
             on == PageOn(m, objects) IN
         m.kind = "Paginate" =>
             /\ Goes(w, "conn", "loaded")
                => /\ worker'[w].result = on.result
                   /\ worker'[w].nav = NoNav
             /\ Goes(w, "loaded", "first")
                => /\ worker'[w].nav = [worker[w].nav EXCEPT !.first = on.nav.first]
                   /\ worker'[w].result = worker[w].result
             /\ Goes(w, "first", "last")
                => /\ worker'[w].nav = [worker[w].nav EXCEPT !.last = on.nav.last]
                   /\ worker'[w].result = worker[w].result
             /\ Goes(w, "last", "next")
                => /\ worker'[w].nav = [worker[w].nav EXCEPT !.next = on.nav.next]
                   /\ worker'[w].result = worker[w].result
             /\ (Goes(w, "next", "done") /\ worker'[w].res = Ok)
                => /\ worker'[w].nav = [worker[w].nav EXCEPT !.prev = on.nav.prev]
                   /\ worker'[w].result = worker[w].result
                   /\ worker'[w].header = Header(worker'[w].nav)
             /\ (Returns(w) /\ worker'[w].res = Ok) => worker[w].pc = "next"
             /\ (worker'[w] # worker[w] /\ worker[w].pc # "idle") => objects' = objects
             /\ (/\ Goes(w, "next", "done") /\ worker'[w].res = Ok
                 /\ \A n \in 1..Len(worker[w].saw) : worker[w].saw[n] = objects)
                => on = [result |-> worker'[w].result, nav |-> worker'[w].nav]
    ]_vars

\* C20 witness: a Paginate has returned a page that another worker's commit
\* fell into: the rows its page was loaded from are not the rows its anchors
\* were computed on, and no one table gives its result.
EachQueryOwnStateWitness ==
    \E w \in Workers :
        /\ Listed(w)
        /\ worker[w].result # <<>>
        /\ worker[w].saw[1] # worker[w].saw[2]
        /\ \A objs \in Tables :
                PageOn(worker[w].req, objs) # [result |-> worker[w].result,
                                               nav |-> worker[w].nav]

\* The messages the Auth<T> handler is sent.
Logins(w) == worker[w].req.kind \in {"AuthBasic", "AuthToken"}

\* C21: no step of an Auth<Basic> or Auth<Token> handler, whether it ends in
\* Ok or in an error, changes a salt, a password hash, a resource or the
\* marker of a connection; the one connection it leases is an idle one, taken
\* as it is; and a credential that is not of the variant the message asks for
\* is refused with Unauthorized before any lease.
AuthReadOnly ==
    [][\A w \in Workers :
        LET m == worker[w].req IN
        Logins(w) =>
            /\ (worker'[w] # worker[w] /\ worker[w].pc # "idle")
               => /\ users' = users /\ objects' = objects /\ marker' = marker
                  /\ nextSalt' = nextSalt
                  /\ ~worker'[w].wrote /\ worker'[w].by = {}
                  /\ worker'[w].pc \in {"auth", "done", "idle"}
            /\ (worker[w].pc = "start" /\ worker'[w].pc = "auth")
               => /\ worker'[w].conn \in idle
                  /\ idle' = idle \ {worker'[w].conn}
            /\ (/\ worker[w].pc = "start" /\ worker'[w] # worker[w]
                /\ m.cred.type # AuthTypeOf(m.kind))
               => /\ worker'[w].pc = "done" /\ worker'[w].res = Unauthorized
                  /\ idle' = idle
    ]_vars

\* C21 witness: a login has been accepted and one with a credential of the
\* other variant refused, on a pool one connection of which carries the
\* marker an earlier request left.
AuthReadOnlyWitness ==
    \E v, w \in Workers :
        /\ worker[v].pc = "done" /\ Logins(v)
        /\ worker[v].req.cred.type # AuthTypeOf(worker[v].req.kind)
        /\ worker[v].res = Unauthorized
        /\ worker[w].pc = "done" /\ Logins(w) /\ worker[w].res = Ok
        /\ \E c \in Conns : marker[c] # {}

\* C22: equality and order of CiString and CiStr go by the lowercased
\* strings and agree with one another: a == b exactly when the lowercased
\* strings are equal, cmp gives Equal exactly when a == b, partial_cmp is
\* Some of what cmp gives, the CiStrs of a and b compare as a and b do, and
\* == is reflexive, symmetric and transitive.
CaseInsensitiveOrder ==
    LET r == ci.compared IN
    ci.pc # "new" =>
        /\ r.eq_ab = (to_lowercase(ci.a[1]) = to_lowercase(ci.b[1]))
        /\ (r.cmp_ab = "Equal") = r.eq_ab
        /\ r.partial_cmp_ab = Some(r.cmp_ab)
        /\ r.ref_eq_ab = r.eq_ab
        /\ r.ref_eq_string_ab = r.eq_ab
        /\ r.ref_cmp_ab = r.cmp_ab
        /\ r.ref_partial_cmp_ab = r.partial_cmp_ab
        /\ r.eq_aa
        /\ r.eq_ab = r.eq_ba
        /\ (r.eq_ab /\ r.eq_bc) => r.eq_ac

\* C22 witness: two strings that differ in case only, one of them with a
\* capital sigma at its end, have compared equal, and a third has compared
\* unequal to them.
CaseInsensitiveOrderWitness ==
    /\ ci.pc = "compared"
    /\ ci.a # ci.b
    /\ \E i \in 1..Len(ci.a[1]) : ci.a[1][i] = Sigma /\ i = Len(ci.a[1]) /\ i > 1
    /\ ci.compared.eq_ab /\ ci.compared.cmp_ab = "Equal"
    /\ ~ci.compared.eq_bc /\ ~ci.compared.eq_ac

\* C23: two CiStrings that are equal hash to the same value, and the strs
\* they are borrowed as compare with one another and hash as the CiStrings
\* do, so that keys equal as CiStrings are one key of a collection.
EqualKeysOneKey ==
    ci.pc = "borrowed" =>
        /\ ci.compared.eq_ab => ci.hashed.a = ci.hashed.b
        /\ ci.borrowed.eq_ab = ci.compared.eq_ab
        /\ ci.borrowed.cmp_ab = ci.compared.cmp_ab
        /\ ci.borrowed.hash_a = ci.hashed.a /\ ci.borrowed.hash_b = ci.hashed.b

====
